---- MODULE Spec2Model ----
(***************************************************************************)
(* A model of GeographicLib's Geodesic.cpp (Geodesic::Inverse, Chi12,      *)
(* SinSeries, GeodesicLine and GeodesicLine::Position).                    *)
(*                                                                         *)
(* Representation.                                                         *)
(*  - A double holding an angle in degrees is a pair <<sign, magnitude>>   *)
(*    with the magnitude in units of 1/Deg degree, so that the IEEE        *)
(*    negative zero <<-1, 0>> is a value of its own.                       *)
(*  - A normalized pair (sin x, cos x) is a record [ss, cs, ref]: the sign *)
(*    bits of the two components and the reference angle ref in 0..90 deg  *)
(*    with |sin x| = sin ref and |cos x| = cos ref.  ref = 0 makes the     *)
(*    sine a signed zero, ref = 90 deg makes the cosine zero (or tiny).    *)
(*  - The floating-point quantities the solver compares (the Newton        *)
(*    residual against eps2 and tol, csig12 against 0, x and y of the      *)
(*    astroid problem, ...) are not computed: every outcome the comparison *)
(*    admits is a nondeterministic choice of the action, restricted where  *)
(*    the signs of the operands decide the comparison.                     *)
(***************************************************************************)
EXTENDS Integers, Sequences, FiniteSets, TLC

\* Model units per degree (the angular resolution of the model).
Deg == 10
\* Cap of the model on the never-reset iteration counter iterx.
IterxCap == 2

----------------------------------------------------------------------------
(* Doubles with a signed zero                                              *)

D(n) == IF n < 0 THEN <<-1, -n>> ELSE <<1, n>>
NegZero == <<-1, 0>>
Val(x) == x[1] * x[2]
IsNegZero(x) == x[1] = -1 /\ x[2] = 0

\* k * x for an int k in {-1, +1} converted to double, x a double.
FMulSign(k, x) == <<k * x[1], x[2]>>
\* x - y in IEEE arithmetic (round to nearest): an exact zero difference is
\* +0 unless x = -0 and y = +0.
FSub(x, y) ==
  LET v == Val(x) - Val(y) IN
  IF v # 0 THEN D(v)
  ELSE IF IsNegZero(x) /\ y = <<1, 0>> THEN NegZero ELSE <<1, 0>>
FAbs(x) == <<1, x[2]>>

----------------------------------------------------------------------------
(* Elementary numerics of Geodesic.hpp                                     *)

\* Threshold (in model units) under which AngRound snaps an angle to zero:
\* the angles of smaller magnitude stand for those under the resolution of
\* AngRound.
RoundEps == 2

\* AngNormalize: reduce by +/-360 until the angle lies in (-180, 180].
RECURSIVE AngNormalize(_)
AngNormalize(x) ==
  IF Val(x) > 180 * Deg THEN AngNormalize(D(Val(x) - 360 * Deg))
  ELSE IF Val(x) <= -180 * Deg THEN AngNormalize(D(Val(x) + 360 * Deg))
  ELSE x

\* AngRound: a tiny angle snaps to zero, keeping its sign.
AngRound(x) == IF x[2] < RoundEps THEN <<x[1], 0>> ELSE x

----------------------------------------------------------------------------
(* (sin, cos) pairs and atan2                                              *)

Dir(s, c, r) == [ss |-> s, cs |-> c, ref |-> r]
NoDir == Dir(0, 0, 0)

\* atan2(y, x) / degree for y = ys * |sin|, x = xs * |cos| (ys, xs sign
\* bits), as the C library computes it on signed zeros: atan2(+-0, x > 0)
\* = +-0, atan2(+-0, x < 0) = +-180, atan2(y, +-0) = +-90.
Atan2Deg(ys, xs, ref) ==
  IF xs > 0 THEN <<ys, ref>> ELSE <<ys, 180 * Deg - ref>>

----------------------------------------------------------------------------
(* Series evaluation                                                       *)

\* The loop `for (int j = n; --j;)` of SinSeries, entered with the value of j
\* before the decrement: y0, y1 are the Clenshaw accumulators, c is the
\* coefficient array (c[k] here is c[k-1] of the code), steps counts the
\* executions of the loop body.
RECURSIVE SinSeriesLoop(_, _, _, _, _, _)
SinSeriesLoop(ar, c, j, y0, y1, steps) ==
  IF j - 1 = 0 THEN [y0 |-> y0, steps |-> steps]
  ELSE SinSeriesLoop(ar, c, j - 1, ar * y0 - y1 + c[j - 1], y0, steps + 1)

\* SinSeries(sinx, cosx, c, n) on integers: the value and the number of
\* loop-body executions.
SinSeries(sinx, cosx, c, n) ==
  LET ar == 2 * (cosx * cosx - sinx * sinx)
      r  == SinSeriesLoop(ar, c, n, c[n], 0, 0)
  IN  [val |-> 2 * sinx * cosx * r.y0, n |-> n, steps |-> r.steps]

\* h^k for k >= 0.
RECURSIVE Pow(_, _)
Pow(h, k) == IF k = 0 THEN 1 ELSE h * Pow(h, k - 1)

\* Variant: the second accumulator added instead of subtracted.
RECURSIVE SinSeriesLoopQ_plus(_, _, _, _, _, _, _)
SinSeriesLoopQ_plus(a, h2, c, j, y0, y1, m) ==
  IF j - 1 = 0 THEN [y0 |-> y0, steps |-> m]
  ELSE SinSeriesLoopQ_plus(a, h2, c, j - 1,
                           a * y0 + h2 * h2 * y1 + c[j - 1] * Pow(h2, m + 1),
                           y0, m + 1)

\* The loop of SinSeries in exact rational arithmetic, for the arguments
\* sinx = s / h and cosx = cs / h with h2 = h * h: ar = a / h2 with
\* a = 2 * (cs * cs - s * s).  After m executions of the body the
\* accumulator y0 of the code is y0 / h2^m and y1 of the code is
\* y1 / h2^(m-1) here, so that y0 = ar * y1 - y2 + c[j - 1] reads as below.
\* With h2 = 1 this is SinSeriesLoop.
RECURSIVE SinSeriesLoopQ(_, _, _, _, _, _, _)
SinSeriesLoopQ(a, h2, c, j, y0, y1, m) ==
  IF j - 1 = 0 THEN [y0 |-> y0, steps |-> m]
  ELSE SinSeriesLoopQ(a, h2, c, j - 1,
                      a * y0 - h2 * h2 * y1 + c[j - 1] * Pow(h2, m + 1),
                      y0, m + 1)

\* SinSeries(s / h, cs / h, c, n) with h2 = h * h = s * s + cs * cs: the
\* value is num / h2^n (2 * sinx * cosx = 2 * s * cs / h2).
SinSeriesQ(s, cs, c, n) ==
  LET h2 == s * s + cs * cs
      r  == SinSeriesLoopQ(2 * (cs * cs - s * s), h2, c, n, c[n], 0, 0)
  IN  [num |-> 2 * s * cs * r.y0, n |-> n, steps |-> r.steps]

\* What a call of SinSeries with n coefficients leaves in the log of the
\* model: n and the number of loop-body executions (they do not depend on
\* the floating-point arguments, which the model does not compute).
SeriesRun(n) ==
  LET e == SinSeries(0, 1, [k \in 1..n |-> 0], n)
  IN  [n |-> e.n, steps |-> e.steps]
NoSeries == [n |-> 0, steps |-> 0]

----------------------------------------------------------------------------
(* The ellipsoid                                                           *)

\* Variant: a constructor that refuses a negative equatorial radius.
GeodesicFields_checked(a, r) ==
  IF a < 0 THEN [a |-> 0, r |-> 0] ELSE [a |-> a, r |-> IF r > 0 THEN r ELSE 0]

\* Geodesic::Geodesic(a, r): _a = a, _f = r > 0 ? 1/r : 0.  The flattening is
\* kept as its inverse r (0 for the sphere).
GeodesicFields(a, r) == [a |-> a, r |-> IF r > 0 THEN r ELSE 0]

\* chi12 <= pi - _f * pi, in model units of lon12 (chi12 = lon12 * degree).
EquatorialReach(g, lon12) ==
  IF g.r > 0 THEN Val(lon12) * g.r <= 180 * Deg * (g.r - 1)
  ELSE Val(lon12) <= 180 * Deg

\* The reduced latitude beta of a latitude (tan beta = _f1 tan phi), in model
\* units: on a flattened ellipsoid it lies one unit nearer the equator than
\* the latitude, except on the equator and at the poles.
Beta(g, lat) ==
  IF g.r > 0 /\ lat[2] > 0 /\ lat[2] < 90 * Deg
  THEN lat[1] * (lat[2] - 1) ELSE Val(lat)

----------------------------------------------------------------------------
(* Geodesic::Inverse: canonical form                                       *)

\* lon12 = AngRound(AngNormalize(AngNormalize(lon2) - AngNormalize(lon1)))
Lon12Of(lon1, lon2) ==
  AngRound(AngNormalize(FSub(AngNormalize(lon2), AngNormalize(lon1))))

\* int lonsign = lon12 >= 0 ? 1 : -1
LonSign(lon12) == IF Val(lon12) >= 0 THEN 1 ELSE -1

\* Variant: the exchange decided the other way round.
Swapp_reversed(lat1, lat2) == IF lat1[2] <= lat2[2] THEN 1 ELSE -1

\* int swapp = abs(lat1) >= abs(lat2) ? 1 : -1
Swapp(lat1, lat2) == IF lat1[2] >= lat2[2] THEN 1 ELSE -1

\* int latsign = lat1 < 0 ? 1 : -1
LatSign(lat1) == IF Val(lat1) < 0 THEN 1 ELSE -1

\* Lines 102-122: the canonical longitude difference and latitudes and the
\* three signs that record the transformation.
Canon(lat1, lon1, lat2, lon2) ==
  LET l12  == Lon12Of(lon1, lon2)
      ls0  == LonSign(l12)
      la   == AngRound(lat1)
      lb   == AngRound(lat2)
      sw   == Swapp(la, lb)
      p1   == IF sw < 0 THEN lb ELSE la
      p2   == IF sw < 0 THEN la ELSE lb
      lts  == LatSign(p1)
  IN  [lon12   |-> FMulSign(ls0, l12),
       lonsign |-> IF sw < 0 THEN -ls0 ELSE ls0,
       swapp   |-> sw,
       latsign |-> lts,
       lat1    |-> FMulSign(lts, p1),
       lat2    |-> FMulSign(lts, p2)]

\* (schi12, cchi12) of lines 157-159: cchi12 = cos(chi12) and
\* schi12 = lon12 == 180 ? 0 : sin(chi12), for lon12 in [0, 180].
DirOfLon(lon12) ==
  IF Val(lon12) = 180 * Deg THEN Dir(1, -1, 0)
  ELSE IF Val(lon12) <= 90 * Deg THEN Dir(lon12[1], 1, Val(lon12))
  ELSE Dir(1, -1, 180 * Deg - Val(lon12))

\* Variant: a longitude difference of 180 degrees not taken as meridional.
IsMeridional_zeroOnly(c) ==
  \/ Val(c.lon12) = 0
  \/ Val(c.lat1) = -90 * Deg

\* schi12 == 0 || lat1 == -90 (line 165)
IsMeridional(c) ==
  \/ DirOfLon(c.lon12).ref = 0
  \/ Val(c.lat1) = -90 * Deg

\* sbet1 == 0 && chi12 <= pi - _f * pi (lines 186-188)
IsEquatorial(g, c) ==
  /\ Val(c.lat1) = 0
  /\ EquatorialReach(g, c.lon12)

----------------------------------------------------------------------------
(* Distances                                                               *)

\* A distance is kept as the expression the code evaluates:
\*   "meridian": _b * tauScale(_ep2) * (p + (S(w) - S(q))), p = sig12 and
\*               q, w the arcs sig1, sig2 (model units);
\*   "equator" : _a * chi12, p = _a * lon12 (model units);
\*   "geodesic": _b * tauScale(u2) * (sig12 + ...) of the last Chi12, which
\*               was evaluated at the pair (sin alp1, cos alp1) = (p, q, w).
Dist(kind, p, q, w) == [kind |-> kind, p |-> p, q |-> q, w |-> w]
NoDist == Dist("none", 0, 0, 0)
IsZeroDist(d) ==
  \/ d.kind = "meridian" /\ d.p = 0 /\ d.q = d.w
  \/ d.kind = "equator" /\ d.p = 0

\* Resolution of the second eccentricity squared: u2 is kept in units of
\* 1/Milli.
Milli == 1000

\* _ep2 = _e2 / sq(_f1) with _e2 = _f * (2 - _f) and _f = 1 / r, that is
\* (2r - 1) / (r - 1)^2, in units of 1/Milli (0 for the sphere; r = 1 makes
\* _f1 zero and is not among the ellipsoids of the model).
Ep2(g) ==
  IF g.r > 1 THEN (Milli * (2 * g.r - 1)) \div ((g.r - 1) * (g.r - 1)) ELSE 0

\* The product u2 * t of the Horner forms below, u2 in units of 1/Milli.
U2Times(u2, t) == (u2 * t) \div Milli

\* Variant: the scale factor of the sphere at every eccentricity.
TauScale_sphere(u2, N) == <<1, 1>>

\* Geodesic::tauScale(u2) at series order N, as <<numerator, denominator>>
\* of the quotient the code returns.
TauScale(u2, N) ==
  CASE N <= 1 -> <<u2 + 4 * Milli, 4 * Milli>>
    [] N = 2 -> <<U2Times(u2, 16 - U2Times(u2, 3)) + 64, 64>>
    [] N = 3 -> <<U2Times(u2, U2Times(u2, U2Times(u2, 5) - 12) + 64) + 256,
                  256>>
    [] N = 4 ->
         <<U2Times(u2, U2Times(u2, U2Times(u2, 320 - U2Times(u2, 175)) - 768)
                       + 4096) + 16384, 16384>>
    [] N = 5 ->
         <<U2Times(u2, U2Times(u2, U2Times(u2,
             U2Times(u2, U2Times(u2, 441) - 700) + 1280) - 3072) + 16384)
           + 65536, 65536>>
    [] N = 6 ->
         <<U2Times(u2, U2Times(u2, U2Times(u2, U2Times(u2,
             U2Times(u2, 7056 - U2Times(u2, 4851)) - 11200) + 20480)
             - 49152) + 262144) + 1048576, 1048576>>
    [] N = 7 ->
         <<U2Times(u2, U2Times(u2, U2Times(u2, U2Times(u2, U2Times(u2,
             U2Times(u2, U2Times(u2, 14157) - 19404) + 28224) - 44800)
             + 81920) - 196608) + 1048576) + 4194304, 4194304>>
    [] OTHER ->
         <<U2Times(u2, U2Times(u2, U2Times(u2, U2Times(u2, U2Times(u2,
             U2Times(u2, U2Times(u2, 3624192 - U2Times(u2, 2760615))
             - 4967424) + 7225344) - 11468800) + 20971520) - 50331648)
             + 268435456) + 1073741824, 1073741824>>

\* No scale factor recorded (s12 was not formed with tauScale(_ep2)).
NoScale == <<0, 0>>

\* The arc sigma with (ssig, csig) = norm(sbet, calp * cbet): sigma = beta
\* when calp > 0, and beta reflected in the pole when calp < 0.
SigOf(beta, cs) ==
  IF cs > 0 THEN beta
  ELSE IF beta < 0 THEN -180 * Deg - beta ELSE 180 * Deg - beta

\* atan2(max(csig1*ssig2 - ssig1*csig2, 0), csig1*csig2 + ssig1*ssig2):
\* sig2 - sig1 limited to [0, 180].
Sig12Of(s1, s2) ==
  LET d == (s2 - s1) % (360 * Deg) IN
  IF d <= 180 * Deg THEN d
  ELSE IF d > 270 * Deg THEN 0 ELSE 180 * Deg

\* Lines 167-185: the meridional solution.
MeridionalDist(g, c) ==
  LET s1 == SigOf(Beta(g, c.lat1), DirOfLon(c.lon12).cs)
      s2 == SigOf(Beta(g, c.lat2), 1)
  IN  Dist("meridian", Sig12Of(s1, s2), s1, s2)

\* Variant: the arc length on the unit sphere.
EquatorialDist_unit(g, c) == Dist("equator", Val(c.lon12), 0, 0)

\* Line 191: s12 = _a * chi12.
EquatorialDist(g, c) == Dist("equator", g.a * Val(c.lon12), 0, 0)

----------------------------------------------------------------------------
(* Geodesic::Inverse: the general case                                     *)

\* Iteration limits of the two loops of Inverse.
NewtonMax == 50
AstroidMax == 30
\* Passes with a residual not below tol followed away from the antipode.
BigPasses == 4
\* The preprocessor flag ITER (not defined in Geodesic.cpp).
ITER == 0
\* Sense of the azimuth at point 2.
azi2sense == 1

\* The pairs (sin alp1, cos alp1) the Newton iteration can end with:
\* salp1 = max(0.0, nsalp1) is never negative, calp1 has either sign.
GenDirs == { Dir(1, cs, r) : cs \in {-1, 1}, r \in {0, 45 * Deg} }

\* 3 * chicrita * cbet1 is about 3 pi _f cbet1^2 radians, at most 540 / r
\* degrees: the bound, in model units, of the arc between point 2 and the
\* antipode of point 1 under which the zeroth-order guess is given up.
AntipodalReach(g) == (540 * Deg) \div g.r + 1

\* csig12 < 0 && ssig12 < 3 * chicrita * cbet1 requires point 2 within
\* that arc of the antipode of point 1: the latitudes nearly opposite and
\* lon12 near 180 (the longitude counted double, which covers the
\* convergence of the meridians up to 60 degrees of latitude; nearer the
\* poles the model has only the meridional case).
NearAntipodal(g, c) ==
  /\ -(Val(c.lat1) + Val(c.lat2)) <= AntipodalReach(g)
  /\ 180 * Deg - Val(c.lon12) <= 2 * AntipodalReach(g)

\* csig12 >= 0 || ssig12 >= 3 * chicrita * cbet1 is certainly true when
\* _f = 0 (then chicrita = 0 <= ssig12) and away from the antipode.
ZerothCertain(g, c) ==
  \/ g.r = 0
  \/ ~NearAntipodal(g, c)

\* A lower bound of 100 * cbet1, by latitude.
CosLow(lat) ==
  IF lat[2] = 0 THEN 99 ELSE IF lat[2] <= 30 * Deg THEN 85 ELSE 0

\* x > -1 - xthresh with x = (chi12 - pi) / chicrita and chicrita about
\* _f pi cbet1: the cases of the test of line 215 that y = 0 leaves open.
StripCases(g, c) ==
  LET gap == (180 * Deg - Val(c.lon12)) * g.r IN
  IF gap * 100 < 180 * Deg * CosLow(c.lat1) THEN {"strip"}
  ELSE IF gap > 180 * Deg THEN {"y0"}
  ELSE {"strip", "y0"}

\* The cases of lines 208-252 the comparisons admit: "zeroth" (line 210),
\* "strip" (217-218), "y0" (222-223), "cubic" (226-246), "origin" (249-250).
\* y = sbet12a / (chicrita * cbet1) is zero exactly when beta2 = -beta1.
GuessCases(g, c) ==
  IF ZerothCertain(g, c) THEN {"zeroth"}
  ELSE {"zeroth"} \cup
       (IF Val(c.lat2) = -Val(c.lat1) THEN StripCases(g, c)
        ELSE {"cubic", "origin"})

\* A pair of which both components are NaN, and a NaN result.
NaNDir == Dir(0, 0, -1)
NaNVal == <<0, 0>>

\* The sign of x + 1 in the window -1.09 < x < -0.91 of line 226, with
\* x = (chi12 - pi) / chicrita: x = -1 is a double of the window.
CubicXSigns == {-1, 0, 1}

\* The sign of a = (x + 1) / sq(cbrt(y)) (line 230): y != 0 in this branch,
\* so sq(cbrt(y)) > 0 and a has the sign of x + 1, zero included.
CubicA(x1) == x1

\* disc = 27 - 8 * a3 >= 0 (line 234): certain for a <= 0, open for a > 0.
CubicDiscs(a) == IF a > 0 THEN BOOLEAN ELSE {TRUE}

\* Lines 229-246 on signs.  a3 = sq(a) * a.  With disc >= 0, s = 4 a3 - 27
\* (negative there) grows in magnitude and is divided by 4 * a3: positive
\* for a < 0, negative for a > 0, and -inf for the divisor +0; then
\* v = 1 + s + 1/s is >= 3, <= -1 or -inf.  With disc < 0,
\* v = 1 + 2 cos(ang/3) lies in (-1, 0).  calp1 = cbrt(-y) * -3 / a / v
\* has a negative numerator; with a = +0 it is -inf / -inf, a NaN.  zero
\* holds the divisors that are zero where the code divides by them.
CubicGuess(x1, dnn) ==
  LET a  == CubicA(x1)
      a3 == a * a * a
      sv == IF ~dnn THEN "none"
            ELSE IF 4 * a3 = 0 THEN "-inf"
            ELSE IF a3 < 0 THEN "pos" ELSE "neg"
      v  == IF ~dnn THEN "neg" ELSE sv
  IN  [done |-> TRUE, x1 |-> x1, a |-> a, a3 |-> a3, disc |-> dnn,
       s |-> sv, v |-> v,
       zero |-> (IF dnn /\ 4 * a3 = 0 THEN {"4*a3"} ELSE {})
                \cup (IF a = 0 THEN {"a"} ELSE {})
                \cup (IF v = "zero" THEN {"v"} ELSE {}),
       calp1 |-> IF a = 0 /\ v = "-inf" THEN "nan" ELSE "pos"]

\* Lines 468-477 of Chi12: (salp2, calp2) for the pair d = (salp1, calp1).
\* With cbet2 = cbet1 (equal |latitude|) salp2 = salp1, calp2 = |calp1|;
\* otherwise salp2 = salp1 * cbet1 / cbet2 (zero with salp1, and smaller
\* than salp1 as cbet1 < cbet2) and calp2 = sqrt(...) / cbet2 >= 0.
Chi12Alp2(c, d) ==
  IF d = NaNDir THEN NaNDir
  ELSE IF c.lat2[2] = c.lat1[2] \/ d.ref = 0 THEN Dir(1, 1, d.ref)
  ELSE Dir(1, 1, 30 * Deg)

\* Residual classes of one Newton iteration: |v| <= eps2, eps2 < |v| < tol,
\* |v| >= tol.
Residuals == {"hard", "tol", "big"}

----------------------------------------------------------------------------
(* State                                                                   *)

VARIABLES
  cfg,     \* arguments of the constructor and the series order of the build
  obj,     \* the fields of the Geodesic object
  calls,   \* the arguments of the calls made, in order
  k,       \* the call in progress
  pc,      \* where the call in progress stands
  fr,      \* the locals of the call in progress
  out,     \* what the completed calls returned
  iter,    \* the counter iter
  iterx,   \* the counter iterx
  memo,    \* the solution computed for an earlier canonical problem
  series,  \* n and loop-body count of the latest SinSeries evaluation
  line     \* the fields of the GeodesicLine of a Direct call

vars == <<cfg, obj, calls, k, pc, fr, out, iter, iterx, memo, series, line>>

NoCanon == [lon12 |-> <<1, 0>>, lonsign |-> 0, swapp |-> 0, latsign |-> 0,
            lat1 |-> <<1, 0>>, lat2 |-> <<1, 0>>]
\* The cubic of lines 226-246 not evaluated.
NoCubic == [done |-> FALSE, x1 |-> 0, a |-> 0, a3 |-> 0, disc |-> FALSE,
            s |-> "none", v |-> "none", zero |-> {}, calp1 |-> "none"]
\* Nothing computed by GeodesicLine::Position yet.
NoPos == [tau12 |-> 0, series |-> 0, sig12 |-> 0, buf |-> "none",
          x |-> [v |-> 0, u |-> 0], lon12 |-> [v |-> 0, u |-> 0]]
Frame0 == [c |-> NoCanon, branch |-> "none", guess |-> "none", ai |-> 0,
           i |-> 0, trip |-> 0, res |-> "none", exit |-> "none",
           stale |-> FALSE, refined |-> FALSE, chi |-> NoDir,
           alp1 |-> NoDir, alp2 |-> NoDir, s12 |-> NoDist,
           scale |-> NoScale, np |-> 0, pos |-> NoPos,
           cubic |-> NoCubic, nan |-> FALSE]
NoMemo == [key |-> <<>>, guess |-> "none", exit |-> "none", alp1 |-> NoDir,
           alp2 |-> NoDir, s12 |-> NoDist, cubic |-> NoCubic]

\* The canonical problem Chi12 and the Newton iteration work on.
Key(c) == <<Val(c.lat1), Val(c.lat2), Val(c.lon12)>>

InverseCall(lat1, lon1, lat2, lon2) ==
  [op |-> "Inverse", lat1 |-> lat1, lon1 |-> lon1, lat2 |-> lat2,
   lon2 |-> lon2, azi1 |-> <<1, 0>>, s12 |-> 0, np |-> 0]
DirectCall(lat1, lon1, azi1, s12) ==
  [op |-> "Direct", lat1 |-> lat1, lon1 |-> lon1, lat2 |-> <<1, 0>>,
   lon2 |-> <<1, 0>>, azi1 |-> azi1, s12 |-> s12, np |-> 1]
\* A GeodesicLine constructed by the caller and asked for np positions.
LineCall(lat1, lon1, azi1, np) ==
  [op |-> "Line", lat1 |-> lat1, lon1 |-> lon1, lat2 |-> <<1, 0>>,
   lon2 |-> <<1, 0>>, azi1 |-> azi1, s12 |-> 0, np |-> np]
\* The same pair of points with the two points exchanged.
Exchanged(a) == InverseCall(a.lat2, a.lon2, a.lat1, a.lon1)
\* The pair with all four coordinates negated.
Negated(a) ==
  InverseCall(FMulSign(-1, a.lat1), FMulSign(-1, a.lon1),
              FMulSign(-1, a.lat2), FMulSign(-1, a.lon2))

----------------------------------------------------------------------------
(* GeodesicLine and Direct                                                 *)

\* x + y in IEEE arithmetic: an exact zero sum is +0 unless both are -0.
FAdd(x, y) ==
  LET v == Val(x) + Val(y) IN
  IF v # 0 THEN D(v)
  ELSE IF IsNegZero(x) /\ IsNegZero(y) THEN NegZero ELSE <<1, 0>>

NoLine == [init |-> FALSE, lat1 |-> <<1, 0>>, lon1 |-> <<1, 0>>,
           azi1 |-> <<1, 0>>, bsign |-> 0, dtau1 |-> 0,
           sigCoeff |-> "none", dtau1buf |-> "none", writes |-> 0]

\* The one coefficient buffer _sigCoeff of a line: what it holds, what it
\* held when _dtau1 was evaluated, and how often it has been written.
NoBuffer == [buf |-> "none", dtau1buf |-> "none", writes |-> 0]

CtorBufferSteps_sigFirst == <<"tauCoeff", "sigCoeff", "dtau1">>

\* The constructor's uses of _sigCoeff in program order: tauCoeff fills it
\* (line 611), _dtau1 = SinSeries(..., _sigCoeff, ...) reads it (line 612),
\* sigCoeff overwrites it (line 619).
CtorBufferSteps == <<"tauCoeff", "dtau1", "sigCoeff">>

RECURSIVE BufferRun(_, _)
BufferRun(steps, st) ==
  IF steps = <<>> THEN st
  ELSE LET h == Head(steps) IN
       BufferRun(Tail(steps),
                 IF h = "tauCoeff"
                 THEN [st EXCEPT !.buf = "tau", !.writes = @ + 1]
                 ELSE IF h = "sigCoeff"
                 THEN [st EXCEPT !.buf = "sig", !.writes = @ + 1]
                 ELSE [st EXCEPT !.dtau1buf = st.buf])

\* (salp1, calp1) of lines 571-572 for the folded azimuth:
\* salp1 = azi1 == 180 ? 0 : sin(alp1), calp1 = azi1 == 90 ? 0 : cos(alp1).
AlpOfAzi(az) ==
  IF Val(az) = 180 * Deg THEN Dir(1, -1, 0)
  ELSE IF Val(az) <= 90 * Deg THEN Dir(az[1], 1, Val(az))
  ELSE Dir(1, -1, 180 * Deg - Val(az))

\* The sign of _dtau1 = SinSeries(_ssig1, _csig1, tauCoeff) (line 612): the
\* series is led by c[0] * sin(2 sig1) with c[0] = -u2/8 (line 705 on), and
\* sin(2 sig1) has the sign of sbet1 * calp1 (lines 578-590).  It is zero on
\* the sphere (u2 = 0), on the equator and for calp1 = 0.
DTau1Sign(g, lat1, az) ==
  LET d == AlpOfAzi(az) IN
  IF Ep2(g) = 0 \/ lat1[2] = 0 \/ d.ref = 90 * Deg THEN 0
  ELSE -(lat1[1] * d.cs)

\* GeodesicLine::GeodesicLine (lines 546-626): the azimuth normalized, fixed
\* at the poles, rounded and folded into [0, 180] with its sign in _bsign.
\* init stands for _sScale != 0.
LineFields(g, lat1, lon1, azi1) ==
  LET az0 == AngNormalize(azi1)
      az1 == IF lat1 = <<1, 90 * Deg>> THEN D(-180 * Deg)
             ELSE IF lat1 = <<-1, 90 * Deg>> THEN <<1, 0>>
             ELSE az0
      lo1 == IF lat1 = <<1, 90 * Deg>>
             THEN FSub(lon1, FSub(az0, IF Val(az0) >= 0 THEN D(180 * Deg)
                                       ELSE D(-180 * Deg)))
             ELSE IF lat1 = <<-1, 90 * Deg>> THEN FAdd(lon1, az0)
             ELSE lon1
      az2 == AngRound(az1)
      bs  == IF Val(az2) >= 0 THEN 1 ELSE -1
      az3 == FMulSign(bs, az2)
      b   == BufferRun(CtorBufferSteps, NoBuffer)
  IN  [init |-> g.a # 0, lat1 |-> lat1, lon1 |-> AngNormalize(lo1),
       azi1 |-> az3, bsign |-> bs, dtau1 |-> DTau1Sign(g, lat1, az3),
       sigCoeff |-> b.buf, dtau1buf |-> b.dtau1buf, writes |-> b.writes]


\* (salp2, calp2) of line 654: salp2 = _salp0 keeps the sign and the zero
\* of salp1, calp2 = _calp0 * csig2 has the sign of csig2 and is zero when
\* _calp0 is (azimuth 90 on the equator).  With s12 = 0 point 2 is point 1
\* and csig2 has the sign of csig1 = cbet1 * calp1; otherwise either sign.
Alp2Choices(l, s12) ==
  LET d == AlpOfAzi(l.azi1) IN
  IF s12 = 0 /\ d.ref # 90 * Deg THEN {d}
  ELSE { Dir(d.ss, cs,
             IF d.ref = 0 THEN 0
             ELSE IF d.ref = 90 * Deg /\ Val(l.lat1) = 0 THEN 90 * Deg
             ELSE 45 * Deg) : cs \in {-1, 1} }

\* tau12 = s12 / _sScale (line 636), the distance in units of _sScale.
Tau12(s12) == s12

\* The sign of SinSeries(sin(tau1 + tau12), cos(tau1 + tau12), _sigCoeff) of
\* lines 640-642: the series is led by d[0] * sin(2 tau2) with d[0] = u2/8
\* (line 790 on).  It is zero on the sphere; with s12 = 0 it is evaluated
\* at tau1, where the reversion gives the opposite of _dtau1; elsewhere
\* tau2 is anywhere on the circle.
SigSeriesSigns(g, l, s12) ==
  IF Ep2(g) = 0 THEN {0}
  ELSE IF s12 = 0 THEN {-l.dtau1}
  ELSE {-1, 0, 1}

Sig12_minus(tau12, dtau1, S) == tau12 + (S - dtau1)

\* Lines 638-642: sig12 = tau12 + (_dtau1 + SinSeries(...)), in the units of
\* the terms.
Sig12(tau12, dtau1, S) == tau12 + (dtau1 + S)

\* A longitude difference in degrees: v units of 1/Deg degree and u
\* rounding steps of the double arithmetic (u = -1: the double just below).
Lon(v, u) == [v |-> v, u |-> u]

\* The longitude difference _bsign * chi12 / degree of line 661, before it
\* is folded: zero when the second point is the first, otherwise of either
\* size, whole turns included, and the doubles next to the odd multiples
\* of 180 on the side of zero.
LonDeltas(l, s12) ==
  IF s12 = 0 THEN {Lon(0, 0)}
  ELSE { Lon(l.bsign * m, 0) :
           m \in {0, 1, 90 * Deg, 180 * Deg - 1, 180 * Deg, 180 * Deg + 1,
                  360 * Deg, 540 * Deg - 1, 540 * Deg, 900 * Deg} }
       \cup { Lon(l.bsign * m, -l.bsign) : m \in {180 * Deg, 540 * Deg} }

\* floor(lon12/360 + 0.5) of line 664 in double arithmetic.  The quotient
\* and the sum are exact or round to a neighbour on the same side of the
\* integer, except for the one double just below 180: there lon12/360 is
\* the double just below 0.5 and the sum rounds to 1.0.
FoldTurns(x) ==
  LET n == 2 * x.v + 360 * Deg IN
  IF x = Lon(180 * Deg, -1) THEN 1
  ELSE IF x.u < 0 /\ n % (720 * Deg) = 0 THEN n \div (720 * Deg) - 1
  ELSE n \div (720 * Deg)

LonFold_ceiling(x) ==
  Lon(x.v + 360 * Deg * ((360 * Deg - 2 * x.v) \div (720 * Deg)), x.u)

\* Line 664: lon12 - 360 * floor(lon12/360 + 0.5); the subtraction of a
\* multiple of 360 is exact.
LonFold(x) == Lon(x.v - 360 * Deg * FoldTurns(x), x.u)

\* The distances a caller of Position passes: the one of Direct, or any.
PosDistances(a) == IF a.op = "Direct" THEN {a.s12} ELSE {0, 1}

----------------------------------------------------------------------------
(* Inputs                                                                  *)

\* a, r of the constructor and the order N of the series (maxpow_*); the
\* constructor is also given a negative equatorial radius.
Cfgs == { [a |-> 1, r |-> 0, N |-> 1], [a |-> 3, r |-> 300, N |-> 8],
          [a |-> -3, r |-> 300, N |-> 8] }
LatVals == { D(-90 * Deg), D(-30 * Deg), D(-1), D(0),
             D(30 * Deg - Deg \div 2), D(30 * Deg), D(90 * Deg) }
Lon1Vals == { D(0), D(170 * Deg) }
Lon2Vals == { D(0), D(-1), D(20 * Deg), D(180 * Deg - Deg \div 2),
              D(180 * Deg), D(-170 * Deg) }
AziVals == { D(0), D(-1), D(30 * Deg), D(-30 * Deg), D(90 * Deg),
             D(150 * Deg), D(180 * Deg), D(-180 * Deg) }
Relations == {"exchange", "negate"}
\* The pairs of points solved a second time, exchanged or negated.
PairLatVals == { D(-30 * Deg), D(0), D(30 * Deg) }
PairLon2Vals == { D(0), D(20 * Deg), D(180 * Deg) }

\* Lines asked for several positions.
MaxPositions == 3
LineLatVals == { D(-30 * Deg), D(0) }
LineAziVals == { D(30 * Deg), D(-150 * Deg), D(90 * Deg) }

SecondCall(rel, a) == IF rel = "exchange" THEN Exchanged(a) ELSE Negated(a)

CallSequences ==
  { <<InverseCall(la, l1, lb, l2)>> :
      la \in LatVals, lb \in LatVals, l1 \in Lon1Vals, l2 \in Lon2Vals }
  \cup
  { <<InverseCall(la, D(0), lb, l2),
      SecondCall(rel, InverseCall(la, D(0), lb, l2))>> :
      la \in PairLatVals, lb \in PairLatVals, l2 \in PairLon2Vals,
      rel \in Relations }
  \cup
  { <<DirectCall(la, D(0), az, d)>> :
      la \in LatVals \cup {D(100 * Deg)}, az \in AziVals, d \in {0, 1} }
  \cup
  { <<LineCall(la, D(0), az, n)>> :
      la \in LineLatVals, az \in LineAziVals, n \in 2..MaxPositions }
  \cup
  { <<InverseCall(D(100 * Deg), D(0), lb, l2)>> :
      lb \in {D(30 * Deg), D(-100 * Deg)}, l2 \in {D(0), D(20 * Deg)} }
  \cup
  { <<InverseCall(D(0), D(0), D(0), D(180 * Deg - Deg \div 2)),
      SecondCall(rel, InverseCall(D(0), D(0), D(0),
                                  D(180 * Deg - Deg \div 2)))>> :
      rel \in Relations }
  \cup
  { <<InverseCall(D(-30 * Deg), D(0), D(30 * Deg - Deg \div 2),
                  D(180 * Deg - Deg \div 2)),
      SecondCall("negate",
                 InverseCall(D(-30 * Deg), D(0), D(30 * Deg - Deg \div 2),
                             D(180 * Deg - Deg \div 2)))>> }

Init ==
  /\ cfg \in Cfgs
  /\ obj = [a |-> 0, r |-> 0]
  /\ calls \in CallSequences
  /\ k = 1
  /\ pc = "ctor"
  /\ fr = Frame0
  /\ out = <<>>
  /\ iter = 0
  /\ iterx = 0
  /\ memo = NoMemo
  /\ series = NoSeries
  /\ line = NoLine

----------------------------------------------------------------------------
(* Actions                                                                 *)

\* Geodesic::Geodesic (lines 56-63).
Construct ==
  /\ pc = "ctor"
  /\ obj' = GeodesicFields(cfg.a, cfg.r)
  /\ pc' = "call"
  /\ UNCHANGED <<cfg, calls, k, fr, out, iter, iterx, memo, series, line>>

\* Inverse, lines 98-159: the counters (under ITER), the canonical form and
\* the reduced latitudes.
InverseEnter ==
  /\ pc = "call"
  /\ calls[k].op = "Inverse"
  /\ LET a == calls[k] IN
       fr' = [Frame0 EXCEPT !.c = Canon(a.lat1, a.lon1, a.lat2, a.lon2)]
  /\ iter' = IF ITER # 0 THEN 0 ELSE iter
  /\ iterx' = IF ITER # 0 THEN 0 ELSE iterx
  /\ pc' = "dispatch"
  /\ UNCHANGED <<cfg, obj, calls, k, out, memo, series, line>>

\* Lines 165-185: the geodesic is a meridian.
Meridional ==
  /\ pc = "dispatch"
  /\ IsMeridional(fr.c)
  /\ fr' = [fr EXCEPT !.branch = "meridional",
                      !.alp1 = DirOfLon(fr.c.lon12),
                      !.alp2 = Dir(1, 1, 0),
                      !.s12 = MeridionalDist(obj, fr.c),
                      !.scale = TauScale(Ep2(obj), cfg.N)]
  /\ series' = SeriesRun(cfg.N)
  /\ pc' = "final"
  /\ UNCHANGED <<cfg, obj, calls, k, out, iter, iterx, memo, line>>

\* Lines 186-191: the geodesic runs along the equator.
Equatorial ==
  /\ pc = "dispatch"
  /\ ~IsMeridional(fr.c)
  /\ IsEquatorial(obj, fr.c)
  /\ fr' = [fr EXCEPT !.branch = "equatorial",
                      !.alp1 = Dir(1, 1, 90 * Deg),
                      !.alp2 = Dir(1, 1, 90 * Deg),
                      !.s12 = EquatorialDist(obj, fr.c)]
  /\ pc' = "final"
  /\ UNCHANGED <<cfg, obj, calls, k, out, iter, iterx, memo, series, line>>

\* A second solution of a canonical problem solved before repeats the first
\* one, so it starts from the same case.
GuessChoices(f) ==
  IF memo.key = Key(f.c) THEN {memo.guess} ELSE GuessCases(obj, f.c)

\* The pair (salp1, calp1) a case of lines 208-218 hands to Newton's
\* method.  "zeroth": salp1 = cbet2 * schi12 > 0 and calp1 of either sign,
\* normalized (lines 201-210).  "strip": salp1 = min(1.0, -x) > 0 and
\* calp1 = -sqrt(1 - sq(salp1)) <= 0 (lines 217-218).
StartDirs(gs) ==
  IF gs = "strip" THEN {Dir(1, -1, 45 * Deg)}
  ELSE {Dir(1, cs, 45 * Deg) : cs \in {-1, 1}}

\* The outcomes of the cubic for the x and y of the call; a second solution
\* of a canonical problem solved before has the x and y of the first.
CubicChoices(f) ==
  IF memo.key = Key(f.c) THEN {memo.cubic}
  ELSE { CubicGuess(p[1], p[2]) :
           p \in { q \in CubicXSigns \X BOOLEAN :
                     q[2] \in CubicDiscs(CubicA(q[1])) } }

\* The pairs a step may produce: any of S, but a second solution of a
\* canonical problem solved before repeats the first one, of which the
\* pair it ended with is kept.
\* Once the pair is NaN it stays NaN (lines 264-267, 273-279, 383-392).
PairChoices(f, S) ==
  IF f.nan THEN {NaNDir}
  ELSE IF memo.key = Key(f.c) THEN {memo.alp1} ELSE S

\* Variant: only the zeroth-order start bypasses the refinement.
SkipsRefinement_zerothOnly(gs) == gs = "zeroth"

\* The cases whose pair goes to the Newton loop as it is: the loop of lines
\* 254-270 and the recomputation of lines 273-279 stand inside the else
\* branch of the test of line 215, itself inside the else of line 208.
SkipsRefinement(gs) == gs \in {"zeroth", "strip"}

\* Lines 197-252: the starting point for Newton's method.  The cases "zeroth"
\* and "strip" go straight to the Newton loop; the others enter the loop of
\* lines 254-270.
InitialGuess ==
  /\ pc = "dispatch"
  /\ ~IsMeridional(fr.c)
  /\ ~IsEquatorial(obj, fr.c)
  /\ \E gs \in GuessChoices(fr) :
       IF SkipsRefinement(gs)
       THEN /\ \E d \in StartDirs(gs) :
                 fr' = [fr EXCEPT !.branch = "general", !.guess = gs,
                                  !.alp1 = d]
            /\ pc' = "newton"
       ELSE /\ IF gs = "cubic"
               THEN \E q \in CubicChoices(fr) :
                      fr' = [fr EXCEPT !.branch = "general", !.guess = gs,
                                       !.cubic = q,
                                       !.nan = q.calp1 = "nan"]
               ELSE fr' = [fr EXCEPT !.branch = "general", !.guess = gs]
            /\ pc' = "astroid"
  /\ UNCHANGED <<cfg, obj, calls, k, out, iter, iterx, memo, series, line>>

\* The ways a pass of the loop of lines 254-270 can end.  With a NaN pair
\* v == 0 and abs(da) < tol1 are both false, max(0.0, NaN) is 0.0 and
\* SinCosNorm(0, 0) gives NaN again: the loop goes on.
AstroidOutcomes(f) ==
  IF f.nan THEN {"cont"} ELSE {"v0", "small", "cont"}

\* One pass of the loop of lines 254-270: ++iterx, then v == 0 ends the
\* loop before the update ("v0"), |da| < tol1 ends it after the update
\* ("small"), and otherwise the loop goes on until i reaches 30.
AstroidIter ==
  /\ pc = "astroid"
  /\ fr.ai < AstroidMax
  /\ iterx' = IF iterx < IterxCap THEN iterx + 1 ELSE iterx
  /\ \E o \in AstroidOutcomes(fr) :
       /\ fr' = [fr EXCEPT !.ai = IF o = "cont" THEN fr.ai + 1 ELSE fr.ai]
       /\ pc' = IF o = "cont" /\ fr.ai + 1 < AstroidMax THEN "astroid"
                ELSE "astroidEnd"
  /\ UNCHANGED <<cfg, obj, calls, k, out, iter, memo, series, line>>

\* Lines 273-279: the starting pair recomputed from r and normalized;
\* salp1 = cbet2 * sin(r) >= 0, calp1 of either sign.
AstroidFinish ==
  /\ pc = "astroidEnd"
  /\ \E d \in PairChoices(fr, GenDirs) :
       fr' = [fr EXCEPT !.ai = 0, !.alp1 = d, !.refined = TRUE]
  /\ pc' = "newton"
  /\ UNCHANGED <<cfg, obj, calls, k, out, iter, iterx, memo, series, line>>

\* Away from the antipode Newton's method starts from the spherical
\* solution and converges; the model follows there at most BigPasses passes
\* with a residual not below tol.  Near the antipode (and in the pass
\* after a residual below tol) there is no such limit.
SlowAllowed(g, f) ==
  \/ ~ZerothCertain(g, f.c)
  \/ f.i < BigPasses
  \/ f.trip >= 1

\* The residual classes an iteration may see; a NaN residual passes neither
\* abs(v) <= eps2 nor abs(v) < tol.  A second solution of a
\* canonical problem solved before repeats the first one, so it ends its
\* loop the way the first did.
ResidualChoices(f) ==
  LET all ==
        IF memo.key # Key(f.c) THEN Residuals
        ELSE IF memo.exit = "exhausted" THEN {"big"}
        ELSE IF memo.exit = "hard"
          THEN (IF f.i + 1 < NewtonMax THEN {"hard", "big"} ELSE {"hard"})
        ELSE IF f.trip >= 1 THEN {"tol", "big"}
        ELSE IF f.i + 2 < NewtonMax THEN {"tol", "big"} ELSE {"tol"}
  IN  IF f.nan THEN {"big"}
      ELSE IF SlowAllowed(obj, f) THEN all ELSE all \ {"big"}

\* Variant: one more pass.
NewtonContinues_inclusive(i) == i <= NewtonMax

\* for (unsigned i = 0, ...; i < 50; ++i)
NewtonContinues(i) == i < NewtonMax

\* Variant: neither component clamped.
NewtonUpdate_unclamped(ns, nc) == Dir(ns, nc, 45 * Deg)

\* Lines 383-392: calp1 = calp1 * cdalp1 - salp1 * sdalp1 (sign nc),
\* salp1 = max(0.0, nsalp1) (nsalp1 of sign ns), SinCosNorm(salp1, calp1).
NewtonUpdate(ns, nc) ==
  IF ns < 0 THEN Dir(1, nc, 0) ELSE Dir(1, nc, 45 * Deg)

\* Variant: the loop left only at a second residual below tol.
NewtonBreaks_secondTol(res, trip) ==
  res = "hard" \/ (~(trip < 1) /\ res = "tol")

\* if (abs(v) <= eps2 || !(trip < 1)) break;  (line 377)
NewtonBreaks(res, trip) == res = "hard" \/ ~(trip < 1)

\* One pass of the loop of lines 370-394; res is the class of the residual
\* v of this pass.  Chi12 is evaluated at the pair the pass starts with; the
\* frame keeps that pair in chi when the pass is the last one.
NewtonIter ==
  /\ pc = "newton"
  /\ NewtonContinues(fr.i)
  /\ \E res \in ResidualChoices(fr) :
       IF NewtonBreaks(res, fr.trip)
       THEN /\ fr' = [fr EXCEPT !.exit = IF res = "hard" THEN "hard"
                                         ELSE "trip",
                                !.res = res,
                                !.chi = fr.alp1,
                                !.stale = FALSE]
            /\ pc' = "newtonEnd"
       ELSE \E u \in PairChoices(fr, {NewtonUpdate(ns, nc) :
                                        ns \in {-1, 1}, nc \in {-1, 1}}) :
            /\ fr' = [fr EXCEPT !.i = fr.i + 1,
                                !.res = res,
                                !.alp1 = u,
                                !.chi = IF NewtonContinues(fr.i + 1)
                                        THEN NoDir ELSE fr.alp1,
                                !.trip = IF res = "tol" THEN fr.trip + 1
                                         ELSE fr.trip,
                                !.stale = TRUE,
                                !.exit = IF NewtonContinues(fr.i + 1)
                                         THEN "none" ELSE "exhausted"]
            /\ pc' = IF NewtonContinues(fr.i + 1) THEN "newton"
                     ELSE "newtonEnd"
  /\ iter' = IF ITER # 0 /\ fr.trip < 1 THEN iter + 1 ELSE iter
  /\ series' = SeriesRun(cfg.N)
  /\ UNCHANGED <<cfg, obj, calls, k, out, iterx, memo, line>>

\* Lines 396-399: s12 from the values the last Chi12 left.  d is the pair
\* (salp1, calp1) the last Chi12 was evaluated at, e the pair the loop ended
\* with (d itself unless the pair was updated after that evaluation).
NewtonFinish ==
  /\ pc = "newtonEnd"
  /\ IF memo.key = Key(fr.c)
     THEN /\ fr' = [fr EXCEPT !.alp1 = memo.alp1, !.alp2 = memo.alp2,
                              !.s12 = memo.s12, !.i = 0, !.trip = 0,
                              !.res = "none", !.chi = NoDir]
          /\ memo' = memo
     ELSE LET d == fr.chi
              e == fr.alp1
          IN
            /\ fr' = [fr EXCEPT !.alp1 = e, !.alp2 = Chi12Alp2(fr.c, d),
                                !.s12 = Dist("geodesic", d.ss, d.cs, d.ref),
                                !.i = 0, !.trip = 0, !.res = "none",
                                !.chi = NoDir]
            /\ memo' = [key |-> Key(fr.c), guess |-> fr.guess,
                        cubic |-> fr.cubic,
                        exit |-> fr.exit, alp1 |-> e,
                        alp2 |-> Chi12Alp2(fr.c, d),
                        s12 |-> Dist("geodesic", d.ss, d.cs, d.ref)]
  /\ series' = SeriesRun(cfg.N)
  /\ pc' = "final"
  /\ UNCHANGED <<cfg, obj, calls, k, out, iter, iterx, line>>

\* Variant: the sign of the cosine component left out.
AziOf_nocos(ks, kc, d) == FSub(<<1, 0>>, Atan2Deg(ks * d.ss, d.cs, d.ref))

\* 0 - atan2(ks * salp, kc * calp) / degree
AziOf(ks, kc, d) == FSub(<<1, 0>>, Atan2Deg(ks * d.ss, kc * d.cs, d.ref))

\* Variant: an exhausted iteration reported as an error.
InverseStatus_throwing(f) ==
  IF f.exit = "exhausted" THEN "ConvergenceError" ELSE "returned"

\* The way Inverse ends (line 423, in a function declared throw()).
InverseStatus(f) == "returned"

\* Lines 413-423: the azimuths in the frame of the caller.
InverseResult(f) ==
  LET c  == f.c
      a1 == IF c.swapp < 0 THEN f.alp2 ELSE f.alp1
      a2 == IF c.swapp < 0 THEN f.alp1 ELSE f.alp2
  IN  [status |-> InverseStatus(f),
       s12    |-> f.s12,
       scale  |-> f.scale,
       nan    |-> f.nan,
       azi1   |-> IF f.nan THEN NaNVal
                  ELSE AziOf(-c.swapp * c.lonsign, c.swapp * c.latsign, a1),
       azi2   |-> IF f.nan THEN NaNVal
                  ELSE AziOf(-azi2sense * c.swapp * c.lonsign,
                             azi2sense * c.swapp * c.latsign, a2)]

Finalize ==
  /\ pc = "final"
  /\ out' = Append(out, InverseResult(fr))
  /\ pc' = "returned"
  /\ UNCHANGED <<cfg, obj, calls, k, fr, iter, iterx, memo, series, line>>

\* Direct, line 91: the GeodesicLine through point 1.
LineConstruct ==
  /\ pc = "call"
  /\ calls[k].op \in {"Direct", "Line"}
  /\ LET a == calls[k] IN line' = LineFields(obj, a.lat1, a.lon1, a.azi1)
  /\ series' = SeriesRun(cfg.N)
  /\ pc' = "line"
  /\ UNCHANGED <<cfg, obj, calls, k, fr, out, iter, iterx, memo>>

\* GeodesicLine::Position (lines 628-670), a const member: it reads the
\* line and writes only its results, of which the model keeps azi2 (in the
\* result of the call) and, in pos, tau12, the series, sig12, the buffer
\* read, and lon12 before and after the fold.  An uninitialized line leaves
\* the results untouched.  A line is asked for calls[k].np positions.
Position ==
  /\ pc = "line"
  /\ fr.np < calls[k].np
  /\ \E s \in PosDistances(calls[k]) :
     \E d \in Alp2Choices(line, s) :
     \E x \in LonDeltas(line, s) :
     \E S \in SigSeriesSigns(obj, line, s) :
       LET last == fr.np + 1 = calls[k].np
           res  == [status |-> "returned", s12 |-> NoDist, scale |-> NoScale,
                    nan |-> FALSE, azi1 |-> <<1, 0>>,
                    azi2 |-> IF line.init
                             THEN AziOf(-azi2sense * line.bsign, azi2sense, d)
                             ELSE <<1, 0>>]
       IN  /\ fr' = [fr EXCEPT !.np = @ + 1,
                               !.pos = IF line.init
                                       THEN [tau12 |-> Tau12(s),
                                             series |-> S,
                                             sig12 |-> Sig12(Tau12(s),
                                                             line.dtau1, S),
                                             buf |-> line.sigCoeff,
                                             x |-> x, lon12 |-> LonFold(x)]
                                       ELSE NoPos]
           /\ out' = IF last THEN Append(out, res) ELSE out
           /\ pc' = IF last THEN "returned" ELSE "line"
  /\ series' = IF line.init THEN SeriesRun(cfg.N) ELSE series
  /\ UNCHANGED <<cfg, obj, calls, k, iter, iterx, memo, line>>

\* The next call of the sequence starts.
NextCall ==
  /\ pc = "returned"
  /\ k < Len(calls)
  /\ k' = k + 1
  /\ fr' = Frame0
  /\ pc' = "call"
  /\ UNCHANGED <<cfg, obj, calls, out, iter, iterx, memo, series, line>>

Next ==
  \/ Construct
  \/ InverseEnter
  \/ Meridional
  \/ Equatorial
  \/ InitialGuess
  \/ AstroidIter
  \/ AstroidFinish
  \/ NewtonIter
  \/ NewtonFinish
  \/ Finalize
  \/ LineConstruct
  \/ Position
  \/ NextCall

Spec == Init /\ [][Next]_vars

----------------------------------------------------------------------------
(* Properties                                                              *)

ValidLats(a) == a.lat1[2] <= 90 * Deg /\ a.lat2[2] <= 90 * Deg
\* Call j has valid input on a valid ellipsoid.
ValidInput(j) == ValidLats(calls[j]) /\ cfg.a > 0
\* The two points of the call differ.
DistinctPoints(a) ==
  ~(a.lat1 = a.lat2 /\ Lon12Of(a.lon1, a.lon2)[2] = 0)
\* x = y + 180 degrees (mod 360)
Reversed(x, y) == (Val(x) - Val(y) - 180 * Deg) % (360 * Deg) = 0
\* x = -y (mod 360)
Opposite(x, y) == (Val(x) + Val(y)) % (360 * Deg) = 0
\* -180 < x <= 180 and x is not -0
InHalfOpen(x) ==
  Val(x) > -180 * Deg /\ Val(x) <= 180 * Deg /\ ~IsNegZero(x)

\* C1: once Inverse has canonicalized a pair of points with latitudes in
\* [-90, 90], 0 <= lon12 <= 180, -90 <= lat1 <= 0, lat1 <= lat2 <= -lat1
\* and lonsign, swapp, latsign are each -1 or +1.
C1_CanonicalForm ==
  (calls[k].op = "Inverse" /\ fr.c.swapp # 0 /\ ValidInput(k)) =>
    /\ 0 <= Val(fr.c.lon12) /\ Val(fr.c.lon12) <= 180 * Deg
    /\ -90 * Deg <= Val(fr.c.lat1) /\ Val(fr.c.lat1) <= 0
    /\ Val(fr.c.lat1) <= Val(fr.c.lat2)
    /\ Val(fr.c.lat2) <= -Val(fr.c.lat1)
    /\ fr.c.lonsign \in {-1, 1}
    /\ fr.c.swapp \in {-1, 1}
    /\ fr.c.latsign \in {-1, 1}

\* A pair that needed all three transformations: the points exchanged, the
\* latitudes and the longitude difference negated.
C1_Witness ==
  /\ calls[k].op = "Inverse" /\ ValidInput(k)
  /\ fr.c.swapp = -1 /\ fr.c.latsign = -1
  /\ LonSign(Lon12Of(calls[k].lon1, calls[k].lon2)) = -1
  /\ Val(fr.c.lat1) < 0 /\ Val(fr.c.lat2) > Val(fr.c.lat1)

\* C2: solving two distinct valid points and then the same pair exchanged
\* gives the same s12, and the azimuths of the second solution are those of
\* the first exchanged and each reversed by 180 degrees (mod 360).
C2_ExchangeSymmetry ==
  (/\ Len(out) = 2 /\ calls[2] = Exchanged(calls[1])
   /\ ValidInput(1) /\ DistinctPoints(calls[1])) =>
    /\ out[2].s12 = out[1].s12
    /\ Reversed(out[2].azi1, out[1].azi2)
    /\ Reversed(out[2].azi2, out[1].azi1)

\* Both latitudes of the call round to zero.
OnEquatorCall(a) == AngRound(a.lat1)[2] = 0 /\ AngRound(a.lat2)[2] = 0

\* C3 (amended): solving a pair of valid points and then the pair with all
\* four coordinates negated gives the same s12; each azimuth of the second
\* solution is the first one reversed by 180 degrees (mod 360), except that
\* for two points on the equator it is the first one negated (mod 360).
\* Where the first solution is NaN, so is the second.
C3_SignSymmetryReversed ==
  (Len(out) = 2 /\ calls[2] = Negated(calls[1]) /\ ValidInput(1)) =>
    /\ out[2].s12 = out[1].s12
    /\ out[2].nan = out[1].nan
    /\ IF out[1].nan THEN out[2].azi1 = NaNVal /\ out[2].azi2 = NaNVal
       ELSE IF OnEquatorCall(calls[1])
       THEN /\ Opposite(out[2].azi1, out[1].azi1)
            /\ Opposite(out[2].azi2, out[1].azi2)
       ELSE /\ Reversed(out[2].azi1, out[1].azi1)
            /\ Reversed(out[2].azi2, out[1].azi2)

\* A negated pair off the equator solved by the Newton iteration, with
\* azimuths that are no multiple of 90 degrees.
C3_Witness ==
  /\ Len(out) = 2 /\ calls[2] = Negated(calls[1]) /\ ValidInput(1)
  /\ ~OnEquatorCall(calls[1])
  /\ fr.branch = "general"
  /\ out[1].azi1[2] % (90 * Deg) # 0
  /\ out[2].azi1[2] % (90 * Deg) # 0

\* C3 as stated: the pair with all four coordinates negated has the same
\* s12 and azimuths that are the negations (mod 360) of the original ones.
C3_SignSymmetryNegated ==
  (/\ Len(out) = 2 /\ calls[2] = Negated(calls[1])
   /\ ValidInput(1) /\ DistinctPoints(calls[1])) =>
    /\ out[2].s12 = out[1].s12
    /\ Opposite(out[2].azi1, out[1].azi1)
    /\ Opposite(out[2].azi2, out[1].azi2)

\* C4: every azimuth returned by Inverse (azi1, azi2) and by Position or
\* Direct (azi2) for valid input lies in (-180, 180] and a zero azimuth is
\* +0.
C4_AzimuthRange ==
  \A j \in 1..Len(out) :
    ValidInput(j) =>
      /\ InHalfOpen(out[j].azi2)
      /\ calls[j].op = "Inverse" => InHalfOpen(out[j].azi1)

InvalidInput == ~ValidInput(k)

C7_IterationBounds ==
  /\ fr.i <= NewtonMax
  /\ fr.ai <= AstroidMax
  /\ series.n >= 1 => series.steps = series.n - 1

\* The Newton loop has used all its passes after a near-antipodal start,
\* with a series of 8 terms evaluated in each pass.
C7_Witness ==
  /\ pc = "newtonEnd" /\ fr.i = NewtonMax /\ fr.exit = "exhausted"
  /\ fr.guess = "cubic"
  /\ series.n = 8 /\ series.steps = 7

\* C8: once the Geodesic is constructed, no step of Inverse or Direct
\* writes to a field of the object or to state shared between calls.
C8_NoSharedWrites ==
  [][(pc # "ctor" /\ ValidInput(k)) =>
       (obj' = obj /\ iter' = iter /\ iterx' = iterx)]_vars

\* C9: for identical valid input points Inverse returns s12 = 0 and
\* azi1 = azi2 = 0.
C9_IdenticalPoints ==
  \A j \in 1..Len(out) :
    (/\ calls[j].op = "Inverse" /\ ValidInput(j)
     /\ calls[j].lat1 = calls[j].lat2 /\ calls[j].lon1 = calls[j].lon2) =>
      /\ IsZeroDist(out[j].s12)
      /\ out[j].azi1 = <<1, 0>>
      /\ out[j].azi2 = <<1, 0>>

\* Both canonical points on the equator and chi12 <= pi (1 - f).
EquatorialCase ==
  /\ calls[k].op = "Inverse" /\ ValidInput(k)
  /\ pc \in {"final", "returned"}
  /\ Val(fr.c.lat1) = 0 /\ Val(fr.c.lat2) = 0
  /\ IF obj.r > 0
     THEN Val(fr.c.lon12) * obj.r <= 180 * Deg * (obj.r - 1)
     ELSE Val(fr.c.lon12) <= 180 * Deg

EquatorialValues ==
  /\ fr.alp1 = Dir(1, 1, 90 * Deg)
  /\ fr.alp2 = Dir(1, 1, 90 * Deg)
  /\ fr.s12 = Dist("equator", obj.a * Val(fr.c.lon12), 0, 0)
  /\ pc = "returned" =>
       (out[k].azi1[2] = 90 * Deg /\ out[k].azi2[2] = 90 * Deg)

\* C10 (amended): when both canonical points lie on the equator and
\* 0 < lon12 < 180 with chi12 <= pi (1 - f), Inverse has sin alp1 =
\* sin alp2 = 1, cos alp1 = cos alp2 = 0 and s12 = a chi12, and returns
\* azimuths of +90 or -90 degrees.
C10_EquatorialInterior ==
  (EquatorialCase /\ 0 < Val(fr.c.lon12) /\ Val(fr.c.lon12) < 180 * Deg)
    => EquatorialValues

\* An equatorial pair 20 degrees apart has been solved on the flattened
\* ellipsoid of equatorial radius 3.
C10_Witness ==
  /\ EquatorialCase /\ pc = "returned"
  /\ fr.branch = "equatorial"
  /\ obj.a = 3 /\ Val(fr.c.lon12) = 20 * Deg

\* C10 as stated: whenever both canonical points lie on the equator and
\* chi12 <= pi (1 - f), chi12 = 0 included, Inverse has sin alp1 =
\* sin alp2 = 1, cos alp1 = cos alp2 = 0, s12 = a chi12 and returns
\* azimuths of +90 or -90 degrees.
C10_EquatorialAll == EquatorialCase => EquatorialValues


----------------------------------------------------------------------------
(* C11: antipodal points on the equator                                    *)

\* Both points on the equator, longitudes exactly 180 degrees apart, and the
\* call has returned.
AntipodalEquatorCase ==
  /\ calls[k].op = "Inverse" /\ ValidInput(k)
  /\ pc = "returned"
  /\ Val(fr.c.lat1) = 0 /\ Val(fr.c.lat2) = 0
  /\ Val(fr.c.lon12) = 180 * Deg

\* The sine series vanishes at the arc sig: SinSeries returns
\* 2 * sinx * cosx * y0, and sinx or cosx is zero there.
SeriesVanishes(sig) == sig % (90 * Deg) = 0

\* The distance d formed with scale factor sc on ellipsoid g equals
\* pi * a * (1 - f) = pi * b.
IsPiB(g, d, sc) ==
  \/ /\ d.kind = "equator"
     /\ d.p = g.a * 180 * Deg
     /\ g.r = 0
  \/ /\ d.kind = "meridian"
     /\ d.p = 180 * Deg
     /\ SeriesVanishes(d.q) /\ SeriesVanishes(d.w)
     /\ sc[1] = sc[2]

\* C11 (amended): for two points on the equator whose longitudes differ by
\* exactly 180 degrees, Inverse takes the meridional branch and returns
\* s12 = b * tauScale(e'^2) * pi, the length of the path over a pole; the
\* factor tauScale(e'^2) is 1 on the sphere and exceeds 1 for f > 0, so s12
\* equals pi * b only for f = 0.
C11_AntipodalEquatorOverPole ==
  AntipodalEquatorCase =>
    /\ fr.branch = "meridional"
    /\ out[k].s12.kind = "meridian"
    /\ out[k].s12.p = 180 * Deg
    /\ SeriesVanishes(out[k].s12.q) /\ SeriesVanishes(out[k].s12.w)
    /\ out[k].scale = TauScale(Ep2(obj), cfg.N)
    /\ IF obj.r > 0 THEN out[k].scale[1] > out[k].scale[2]
       ELSE out[k].scale[1] = out[k].scale[2]

C11_Witness == AntipodalEquatorCase /\ obj.r > 0

\* C11 (as stated): for two points on the equator whose longitudes differ
\* by exactly 180 degrees, Inverse returns s12 = pi * a * (1 - f).
C11_AntipodalEquatorPiB ==
  AntipodalEquatorCase => IsPiB(obj, out[k].s12, out[k].scale)


----------------------------------------------------------------------------
(* C12: the ways the Newton loop ends                                      *)

\* C12 (amended): the main Newton loop of Inverse stops only (a) at a pass
\* whose residual satisfies |v| <= eps2, (b) at the pass that follows the
\* first pass with |v| < tol, whatever the residual of that following pass
\* is, or (c) after 50 passes; after a pass with |v| < tol the next pass
\* always ends the loop.
C12_NewtonStops ==
  [][ /\ (pc = "newton" /\ pc' = "newtonEnd") =>
           \/ fr'.exit = "hard" /\ fr'.res = "hard"
           \/ fr'.exit = "trip" /\ fr.trip = 1 /\ fr'.res \in {"tol", "big"}
           \/ fr'.exit = "exhausted" /\ fr'.i = NewtonMax
      /\ (pc = "newton" /\ fr.trip >= 1) => pc' = "newtonEnd"
    ]_vars

\* The loop has ended at the pass after the first residual below tol, on a
\* residual that is not below tol.
C12_Witness ==
  /\ pc = "newtonEnd" /\ fr.exit = "trip"
  /\ fr.trip = 1 /\ fr.res = "big" /\ fr.i < NewtonMax

\* C12 (as stated): the loop stops only at a residual |v| <= eps2, at the
\* second pass whose residual is below tol, or after 50 passes.
C12_StopsOnSecondTol ==
  pc = "newtonEnd" =>
    \/ fr.res = "hard"
    \/ fr.trip = 1 /\ fr.res = "tol"
    \/ fr.i = NewtonMax


----------------------------------------------------------------------------
(* C13: the update step of the Newton loop                                 *)

\* The Newton loop has updated the pair (salp1, calp1) at least once and
\* not yet handed it on.
AfterNewtonUpdate ==
  /\ pc \in {"newton", "newtonEnd"}
  /\ fr.i >= 1

\* C13 (amended): each update step of the main Newton loop rotates
\* (sin alp1, cos alp1) by dalp1 = -v/dv, clamps sin alp1 to be >= 0 and
\* renormalizes; cos alp1 is not clamped, so after an update sin alp1 >= 0
\* holds and cos alp1 has either sign.  A pair that enters the loop as NaN
\* stays NaN.
C13_UpdateClampsSine ==
  AfterNewtonUpdate =>
    IF fr.nan THEN fr.alp1 = NaNDir
    ELSE fr.alp1 \in GenDirs /\ fr.alp1.ss = 1

\* An update has left a negative cos alp1 (with sin alp1 > 0).
C13_Witness ==
  /\ AfterNewtonUpdate /\ memo.key # Key(fr.c)
  /\ fr.alp1 = Dir(1, -1, 45 * Deg)

\* C13 (as stated): after every update both sin alp1 >= 0 and
\* cos alp1 >= 0 hold.
C13_UpdateClampsBoth ==
  AfterNewtonUpdate =>
    /\ fr.alp1.ss = 1
    /\ (fr.alp1.cs = 1 \/ fr.alp1.ref = 90 * Deg)


----------------------------------------------------------------------------
(* C14: the start of the Newton loop near the antipode                     *)

\* The Newton loop is about to make its first pass from a near-antipodal
\* start (one of the four (x, y) cases).
NearAntipodalStart ==
  /\ pc = "newton" /\ fr.i = 0
  /\ fr.guess \in {"strip", "y0", "cubic", "origin"}

\* C14 (amended): in the near-antipodal regime the cases y = 0, the cubic
\* and the origin run the local refinement (at most 30 passes) and then
\* recompute and normalize (sin alp1, cos alp1) from r before the main loop
\* starts; the strip case y > -tol and x > -1 - xthresh does neither: its
\* pair sin alp1 = min(1, -x), cos alp1 = -sqrt(1 - sin^2 alp1) <= 0 goes to
\* the main loop as it is.  A NaN pair of the cubic is refined and
\* recomputed to a NaN pair.
C14_StripBypassesRefinement ==
  /\ NearAntipodalStart =>
       IF fr.guess = "strip"
       THEN ~fr.refined /\ fr.alp1 \in StartDirs("strip") /\ fr.alp1.cs = -1
       ELSE /\ fr.refined
            /\ IF fr.nan THEN fr.alp1 = NaNDir ELSE fr.alp1 \in GenDirs
  /\ fr.ai <= AstroidMax

\* The main loop starts from the pair of the strip case, no refinement
\* having run in this call.
C14_Witness ==
  /\ NearAntipodalStart /\ fr.guess = "strip" /\ ~fr.refined
  /\ memo.key # Key(fr.c)
  /\ obj.a > 0 /\ obj.r > 0
  /\ iterx = 0

\* C14 (as stated): whichever of the four cases supplies the start, the
\* refinement and the recomputation from r have run before the main loop
\* starts.
C14_AlwaysRefined == NearAntipodalStart => fr.refined


----------------------------------------------------------------------------
(* C19: the dispatch to the meridional branch                              *)

\* Inverse has passed its dispatch on a valid input.
Dispatched ==
  /\ calls[k].op = "Inverse" /\ ValidInput(k)
  /\ pc \in {"final", "returned"}

\* The pair d is (sin x, cos x) for the angle x in [0, 180] degrees.
IsPairOf(d, x) == Atan2Deg(d.ss, d.cs, d.ref) = x

\* C19 (amended): Inverse takes its meridional branch if and only if the
\* canonical longitude difference is 0 or exactly 180 degrees or the
\* canonical lat1 is -90; in that branch (sin alp1, cos alp1) =
\* (sin lon12, cos lon12), with sin lon12 taken as exactly 0 at 180 degrees,
\* and (sin alp2, cos alp2) = (0, 1).
C19_MeridionalDispatch ==
  Dispatched =>
    /\ fr.branch = "meridional" <=>
         \/ Val(fr.c.lon12) = 0
         \/ Val(fr.c.lon12) = 180 * Deg
         \/ Val(fr.c.lat1) = -90 * Deg
    /\ fr.branch = "meridional" =>
         /\ IsPairOf(fr.alp1, fr.c.lon12)
         /\ IsPairOf(fr.alp2, <<1, 0>>)

\* A longitude difference of exactly 180 degrees with lat1 > -90 has been
\* solved in the meridional branch.
C19_Witness ==
  /\ Dispatched /\ pc = "returned"
  /\ fr.branch = "meridional"
  /\ Val(fr.c.lon12) = 180 * Deg /\ Val(fr.c.lat1) > -90 * Deg
  /\ fr.alp1 = Dir(1, -1, 0)

\* C19 (as stated): the meridional branch is taken if and only if the
\* canonical longitude difference is 0 or the canonical lat1 is -90.
C19_MeridionalOnlyZero ==
  Dispatched =>
    (fr.branch = "meridional" <=>
       (Val(fr.c.lon12) = 0 \/ Val(fr.c.lat1) = -90 * Deg))


----------------------------------------------------------------------------
(* C20: the pair behind azi1 and the last evaluation of Chi12              *)

\* The Newton loop of a general-case solution has ended.
NewtonEnded ==
  /\ calls[k].op = "Inverse" /\ ValidInput(k)
  /\ fr.branch = "general"
  /\ pc \in {"newtonEnd", "final", "returned"}

\* C20: on every exit path of the main Newton loop (hard stop, trip stop,
\* exhaustion of the 50 passes) the values used for s12 and azi2 come from
\* the Chi12 call evaluated at the pair (salp1, calp1) that is returned as
\* azi1: the pair is never updated after the last evaluation of Chi12.
C20_PairOfLastChi12 ==
  NewtonEnded =>
    /\ ~fr.stale
    /\ pc = "newtonEnd" => fr.chi = fr.alp1
    /\ pc \in {"final", "returned"} =>
         fr.s12 = Dist("geodesic", fr.alp1.ss, fr.alp1.cs, fr.alp1.ref)


----------------------------------------------------------------------------
(* C18: SinSeries as a function of its arguments                           *)

\* Largest number of coefficients, largest coefficient magnitude and
\* largest magnitude of the integers s, cs of the arguments.
MaxN == 3
CoefMax == 1
ArgMax == 2

\* The argument pairs: s and cs not both zero stand for sinx = s / h,
\* cosx = cs / h with h = sqrt(s^2 + cs^2), that is, for the angle
\* x = atan2(s, cs).
SeriesArgs ==
  { p \in (-ArgMax..ArgMax) \X (-ArgMax..ArgMax) : p # <<0, 0>> }

\* The coefficient arrays c[0..n-1] of the code, indexed 1..n here.
CoefArrays ==
  UNION { [1..n -> -CoefMax..CoefMax] : n \in 1..MaxN }

SeriesCall(s, cs, c) ==
  [op |-> "SinSeries", sinx |-> s, cosx |-> cs, c |-> c, n |-> Len(c)]

\* One call of SinSeries on each behaviour.
SeriesInit ==
  /\ cfg = [a |-> 1, r |-> 0, N |-> MaxN]
  /\ obj = [a |-> 0, r |-> 0]
  /\ \E p \in SeriesArgs, c \in CoefArrays :
       calls = <<SeriesCall(p[1], p[2], c)>>
  /\ k = 1
  /\ pc = "series"
  /\ fr = Frame0
  /\ out = <<>>
  /\ iter = 0
  /\ iterx = 0
  /\ memo = NoMemo
  /\ series = NoSeries
  /\ line = NoLine

\* Geodesic::SinSeries (lines 68-81), evaluated in exact arithmetic at
\* (s / h, cs / h) and, as the code does on doubles holding integers, at
\* (s, cs).
SeriesEval ==
  /\ pc = "series"
  /\ LET a == calls[k]
         q == SinSeriesQ(a.sinx, a.cosx, a.c, a.n)
         e == SinSeries(a.sinx, a.cosx, a.c, a.n)
     IN  /\ out' = Append(out, [num |-> q.num, val |-> e.val])
         /\ series' = [n |-> q.n, steps |-> q.steps]
  /\ pc' = "seriesDone"
  /\ UNCHANGED <<cfg, obj, calls, k, fr, iter, iterx, memo, line>>

SeriesNext == SeriesEval

SeriesSpec == SeriesInit /\ [][SeriesNext]_vars

\* (cs + i s)^2 = h2 * (cos 2x + i sin 2x) as <<re, im>>, and its powers
\* z^k = h2^k * (cos 2kx + i sin 2kx).
ZSquare(s, cs) == <<cs * cs - s * s, 2 * s * cs>>
RECURSIVE ZPow(_, _)
ZPow(z, j) ==
  IF j = 0 THEN <<1, 0>>
  ELSE LET w == ZPow(z, j - 1)
       IN  <<w[1] * z[1] - w[2] * z[2], w[1] * z[2] + w[2] * z[1]>>

\* The reference sum over k = 1..n of c[k-1] * sin(2 k x), times h2^n.
RECURSIVE RefSum(_, _, _, _, _)
RefSum(s, cs, c, n, j) ==
  IF j = 0 THEN 0
  ELSE RefSum(s, cs, c, n, j - 1)
       + c[j] * ZPow(ZSquare(s, cs), j)[2] * Pow(s * s + cs * cs, n - j)

\* S_0 = 1, S_1 = ar, S_k = ar * S_(k-1) - S_(k-2) at ar = a / h2, times
\* h2^k.
RECURSIVE ChebS(_, _, _)
ChebS(j, a, h2) ==
  IF j = 0 THEN 1
  ELSE IF j = 1 THEN a
  ELSE a * ChebS(j - 1, a, h2) - h2 * h2 * ChebS(j - 2, a, h2)

\* The sum over k = 1..n of c[k-1] * S_(k-1)(ar), times h2^(n-1).
RECURSIVE ChebSum(_, _, _, _, _)
ChebSum(a, h2, c, n, j) ==
  IF j = 0 THEN 0
  ELSE ChebSum(a, h2, c, n, j - 1)
       + c[j] * ChebS(j - 1, a, h2) * Pow(h2, n - j)

\* C18: for every n >= 1 and coefficients c[0..n-1], SinSeries(sinx, cosx,
\* c, n) equals the sum over k = 1..n of c[k-1] * sin(2kx); its Clenshaw
\* accumulator y0 equals the sum of c[k-1] * S_(k-1)(ar) with
\* ar = 2 cos 2x, and the result is sin(2x) * y0; the loop body runs n - 1
\* times, so for n = 1 it is not executed and the result is sin(2x) * c[0].
C18_SinSeriesIsSineSum ==
  pc = "seriesDone" =>
    LET a  == calls[k]
        h2 == a.sinx * a.sinx + a.cosx * a.cosx
        ar == 2 * (a.cosx * a.cosx - a.sinx * a.sinx)
    IN  /\ out[k].num = RefSum(a.sinx, a.cosx, a.c, a.n, a.n)
        /\ out[k].num =
             2 * a.sinx * a.cosx * ChebSum(ar, h2, a.c, a.n, a.n)
        /\ out[k].val =
             2 * a.sinx * a.cosx * ChebSum(ar, 1, a.c, a.n, a.n)
        /\ series.steps = a.n - 1
        /\ a.n = 1 =>
             /\ series.steps = 0
             /\ out[k].num = 2 * a.sinx * a.cosx * a.c[1]

\* A series of three nonzero terms has been summed at an angle off the
\* axes, with a nonzero result.
C18_Witness ==
  /\ pc = "seriesDone"
  /\ calls[k].n = 3 /\ calls[k].c = <<1, -1, 1>>
  /\ calls[k].sinx = 1 /\ calls[k].cosx = 2
  /\ out[k].num # 0

----------------------------------------------------------------------------
(* C15: the arc length computed by GeodesicLine::Position                  *)

\* Position has computed a point on an initialized line.
PositionDone == line.init /\ fr.np > 0

\* C15, as the code has it: Position computes sig12 = tau12 + S + dtau1,
\* with tau12 = s12 / _sScale, S the reverted series at tau1 + tau12 and
\* dtau1 the value stored at construction; the stored dtau1 enters with a
\* plus sign.
C15_Sig12AddsDtau1 ==
  PositionDone =>
    /\ fr.pos.tau12 \in PosDistances(calls[k])
    /\ fr.pos.sig12 = fr.pos.tau12 + fr.pos.series + line.dtau1

\* A position on a line whose dtau1 is not zero, where the sign matters.
C15_Witness == PositionDone /\ line.dtau1 # 0 /\ fr.pos.tau12 # 0

\* C15 as stated: sig12 = tau12 + S - dtau1.
C15_Sig12SubtractsDtau1 ==
  PositionDone => fr.pos.sig12 = fr.pos.tau12 + fr.pos.series - line.dtau1

----------------------------------------------------------------------------
(* C16: the fold of the longitude difference in Position                   *)

\* C16, as the code has it: x - 360*floor(x/360 + 0.5) folds the longitude
\* difference x, of any magnitude, towards [-180, 180): the folded value
\* differs from x by a multiple of 360 and is < 180; it is >= -180 except
\* for the double just below 180, where x/360 + 0.5 rounds to 1 and the
\* folded value is the double just below -180.  x = 180 (and every odd
\* multiple of 180) folds to -180.
C16_FoldHalfOpenBelow ==
  PositionDone =>
    LET x == fr.pos.x
        y == fr.pos.lon12
    IN  /\ (y.v - x.v) % (360 * Deg) = 0
        /\ y.u = x.u
        /\ y.v < 180 * Deg \/ (y.v = 180 * Deg /\ y.u < 0)
        /\ IF x = Lon(180 * Deg, -1) THEN y = Lon(-180 * Deg, -1)
           ELSE y.v > -180 * Deg \/ (y.v = -180 * Deg /\ y.u >= 0)
        /\ x.v % (360 * Deg) = 180 * Deg /\ x.u = 0 => y = Lon(-180 * Deg, 0)

\* A longitude difference of exactly 180 degrees has been folded, and so
\* has, on another line, the double just below it.
C16_Witness ==
  /\ PositionDone
  /\ fr.pos.x \in {Lon(180 * Deg, 0), Lon(180 * Deg, -1)}
  /\ fr.pos.lon12.v = -180 * Deg

\* C16 as stated: the folded value lies in (-180, 180].
C16_FoldHalfOpenAbove ==
  PositionDone =>
    LET x == fr.pos.x
        y == fr.pos.lon12
    IN  /\ (y.v - x.v) % (360 * Deg) = 0
        /\ y.v > -180 * Deg \/ (y.v = -180 * Deg /\ y.u > 0)
        /\ y.v < 180 * Deg \/ (y.v = 180 * Deg /\ y.u <= 0)

----------------------------------------------------------------------------
(* C17: the order of the uses of the coefficient buffer of a line          *)

\* The constructor of the line has run.
LineBuilt == line.writes # 0

\* C17: the buffer _sigCoeff holds the tauCoeff values when dtau1 is
\* evaluated and is overwritten with the sigCoeff values before the
\* constructor returns; every Position call, the first and the later ones,
\* reads the sigCoeff values; and once the line is built no step writes
\* the buffer again.
C17_BufferOrder ==
  /\ [](LineBuilt => /\ line.dtau1buf = "tau"
                     /\ line.sigCoeff = "sig"
                     /\ line.writes = 2)
  /\ [](PositionDone => fr.pos.buf = "sig")
  /\ [][LineBuilt => /\ line'.sigCoeff = line.sigCoeff
                     /\ line'.writes = line.writes
                     /\ line'.dtau1 = line.dtau1]_vars

\* A line with a nonzero dtau1 has answered more than one Position call.
C17_Witness ==
  /\ PositionDone
  /\ fr.np >= 2
  /\ line.dtau1 # 0
  /\ fr.pos.buf = "sig"

----------------------------------------------------------------------------
(* C21: what the equatorial branch may take for granted                    *)

\* The sign of sbet = _f1 * sin(phi) / hypot(...) of lines 140-150, for a
\* latitude as AngRound has left it: zero on the equator only (_f1 > 0).
SbetSign(lat) == IF lat[2] = 0 THEN 0 ELSE lat[1]

\* Inverse, called with valid input, has taken the branch of lines 186-191.
EquatorialTaken ==
  /\ calls[k].op = "Inverse" /\ ValidInput(k)
  /\ fr.branch = "equatorial"

\* C21: whenever Inverse takes its equatorial branch, which tests only
\* sbet1 == 0 and chi12 <= pi - f pi after the meridional test has failed,
\* the second canonical point is on the equator as well (lat2 = 0,
\* sbet2 = 0) and 0 < lon12 < 180; the canonical form has
\* lat1 <= lat2 <= -lat1.
C21_EquatorialBothOnEquator ==
  EquatorialTaken =>
    /\ SbetSign(fr.c.lat1) = 0
    /\ Val(fr.c.lat1) <= Val(fr.c.lat2) /\ Val(fr.c.lat2) <= -Val(fr.c.lat1)
    /\ Val(fr.c.lat2) = 0
    /\ SbetSign(fr.c.lat2) = 0
    /\ 0 < Val(fr.c.lon12) /\ Val(fr.c.lon12) < 180 * Deg

\* The equatorial branch taken for a pair given with a tiny southern
\* latitude, which AngRound has put on the equator, and with the second
\* point to the west.
C21_Witness ==
  /\ EquatorialTaken
  /\ calls[k].lat1 = D(-1) /\ calls[k].lat2[2] = 0
  /\ fr.c.lonsign = -1

----------------------------------------------------------------------------
(* C22: the divisors of the cubic of the near-antipodal starting point     *)

\* Inverse, called with valid input, has evaluated the cubic of lines
\* 226-246.
CubicEntered ==
  /\ calls[k].op = "Inverse" /\ ValidInput(k)
  /\ fr.cubic.done

\* C22 as stated: in the cubic branch, entered with y != 0, y > -0.027 and
\* -1.09 < x < -0.91 when the strip case did not apply, every divisor is
\* nonzero where the code divides by it (4 * a^3 when disc >= 0, a and v
\* in calp1 = cbrt(-y) * -3 / a / v), x = -1 included.
C22_CubicDivisorsNonzero ==
  CubicEntered => (fr.cubic.zero = {} /\ ~fr.nan)

====
